---- MODULE Spec2Model ----
(***************************************************************************)
(* Verification model of the instrument data pipeline                      *)
(* (earosenfeld/instrument-data-pipeline).                                 *)
(*                                                                         *)
(* Part 1 (specification Spec): the acquisition sessions                   *)
(*   - DAQSimulator       (src/etl/simulations/daq_sim.py)                 *)
(*   - EthernetSimulator  (src/etl/simulations/ethernet_sim.py)            *)
(* and the generate_test_data routine of each of the six simulators, which *)
(* drive those sessions inside try / except / finally.                     *)
(*                                                                         *)
(* Part 2 (specification SpecSignal): the digital signal source            *)
(*   DAQSimulator._simulate_digital_data, with its debounce pass.          *)
(*                                                                         *)
(* Part 3 (specification SpecProfile): the DataFrame each                  *)
(*   generate_test_data builds from the raw samples it has read.           *)
(*                                                                         *)
(* Part 4 (specification SpecStats): analyze_test_data with its control    *)
(*   charts (_plot_spc_charts) and capability indices (_save_statistics).  *)
(*                                                                         *)
(* Part 5 (specification SpecIngest): the ETL routines of src/etl, which    *)
(*   load a CSV file, normalize it and insert its rows into one table.     *)
(*                                                                         *)
(* Units: a duration is an integer number of milliseconds; the code's      *)
(* int(duration * rate) with duration in seconds is (ms * rate) \div 1000. *)
(* Sample values are abstracted to the shape of the returned arrays in     *)
(* Part 1 and are explicit bit sequences in Part 2.                        *)
(***************************************************************************)
EXTENDS Integers, Sequences, FiniteSets, TLC

VARIABLES
    sim,          \* which simulator object has been constructed
    connected,    \* [session -> self.connected] of the sessions it owns
    closed,       \* history: session was disconnected explicitly or hit an error
    last,         \* observation of the last call made (inputs, pre-state, outcome)
    digital_raw,  \* _simulate_digital_data: the random draws, one sequence per channel
    digital_out,  \* _simulate_digital_data: the returned data, one sequence per channel
    prof,         \* generate_test_data: the raw samples read and the DataFrame built
    stats,        \* analyze_test_data: the DataFrame given and what the call produced
    ing           \* ETL: the table of the database written to and the last call made

vars == <<sim, connected, closed, last, digital_raw, digital_out, prof, stats, ing>>

---------------------------------------------------------------------------
(* Bounds of the model *)

\* durations tried: 0..MaxDur ms (DAQ scale) and 100, 200, .. 100*MaxDur ms
MaxDur == 2
\* num_channels tried by direct reads: 0..MaxChannels
MaxChannels == 2
\* digital source: streams of 0..MaxSamples samples
MaxSamples == 7
\* digital source: 1..MaxDigitalChannels channels
MaxDigitalChannels == 1

Durations == (0..MaxDur) \cup {100 * k : k \in 1..MaxDur}
ChannelCounts == 0..MaxChannels

---------------------------------------------------------------------------
(* Program constants *)

sampling_rate == 1000
eth_sampling_rate == 10
DebounceWindow == 4
ICT_points == 14

Recognized == {"analog", "digital", "ethernet"}
\* "usb" stands for every source type the code does not recognise
SourceTypes == Recognized \cup {"usb"}

Sessions == {"daq", "power_meter", "wavelength_analyzer"}
DaqSimulators == {"isolation", "parametric", "hipot", "burnin", "ict", "laser_daq"}
Simulators == DaqSimulators \cup {"laser_ethernet"}

\* the session objects a simulator's constructor creates
SessionsOf(s) ==
    IF s = "laser_ethernet" THEN {"power_meter", "wavelength_analyzer"} ELSE {"daq"}

---------------------------------------------------------------------------
(* Results of a call.  err = "none" is a normal return; otherwise the      *)
(* exception raised:                                                       *)
(*   "NotConnected"          ConnectionError("Not connected to ...")       *)
(*   "UnsupportedSourceType" ValueError("Unsupported source type: ...")    *)
(*   "NetworkError"          ConnectionError("Command failed due to ...")  *)
(*   "ConnectFailed"         ConnectionError("Failed to connect to ...")   *)
(*   "KeyError", "TypeError" raised by the DataFrame transform             *)

Raise(e) ==
    [err |-> e, returned |-> FALSE, num_samples |-> 0, num_channels |-> 0,
     lost |-> FALSE]

Return(n, ch, lost) ==
    [err |-> "none", returned |-> TRUE, num_samples |-> n, num_channels |-> ch,
     lost |-> lost]

---------------------------------------------------------------------------
(* DAQSimulator *)

mut_simulate_daq_data(source_type, duration, num_channels) ==
    Return((duration * sampling_rate) \div 1000, num_channels, FALSE)

mut_rate_simulate_daq_data(source_type, duration, num_channels) ==
    \* the ethernet branch sampled at the network instruments' 10 Hz
    IF source_type \notin Recognized
    THEN Raise("UnsupportedSourceType")
    ELSE IF source_type = "ethernet"
         THEN Return((duration * eth_sampling_rate) \div 1000, num_channels, FALSE)
         ELSE Return((duration * sampling_rate) \div 1000, num_channels, FALSE)

\* num_samples is the length of timestamps and of every channel (lines 39-40).
\* _simulate_ethernet_data reads latency[0] for each channel (line 115): with
\* no samples and at least one channel that is an IndexError.
simulate_daq_data(source_type, duration, num_channels) ==
    IF source_type \notin Recognized
    THEN Raise("UnsupportedSourceType")
    ELSE LET num_samples == (duration * sampling_rate) \div 1000
         IN  IF source_type = "ethernet" /\ num_samples = 0 /\ num_channels > 0
             THEN Raise("IndexError")
             ELSE Return(num_samples, num_channels, FALSE)

mut_toggle_DAQ_connect(c, source_type) ==
    \* a second connect closes the connection the first one opened
    [connected |-> ~c, ret |-> TRUE]

mut_DAQ_connect(c, source_type) ==
    IF c THEN [connected |-> c, ret |-> FALSE]
         ELSE [connected |-> TRUE, ret |-> TRUE]

\* c is self.connected before the call
DAQ_connect(c, source_type) ==
    [connected |-> TRUE, ret |-> TRUE]

mut_DAQ_disconnect(c) ==
    \* toggles the flag instead of clearing it
    [connected |-> ~c, err |-> "none"]

DAQ_disconnect(c) ==
    [connected |-> IF c THEN FALSE ELSE c, err |-> "none"]

mut_precedence_DAQ_read_data(c, source_type, duration, num_channels) ==
    \* the source type is looked at before self.connected
    IF source_type \notin Recognized
    THEN Raise("UnsupportedSourceType")
    ELSE IF ~c THEN Raise("NotConnected")
         ELSE simulate_daq_data(source_type, duration, num_channels)

mut_DAQ_read_data(c, source_type, duration, num_channels) ==
    simulate_daq_data(source_type, duration, num_channels)

DAQ_read_data(c, source_type, duration, num_channels) ==
    IF ~c
    THEN Raise("NotConnected")
    ELSE simulate_daq_data(source_type, duration, num_channels)

---------------------------------------------------------------------------
(* EthernetSimulator.  fail is the outcome of random.random() < p; loss is *)
(* whether the packet-loss mask dropped at least one sample.               *)

mut_ETH_connect(c, fail) ==
    IF fail THEN [connected |-> FALSE, ret |-> FALSE]
            ELSE [connected |-> TRUE, ret |-> TRUE]

ETH_connect(c, fail) ==
    IF fail THEN [connected |-> c, ret |-> FALSE]
            ELSE [connected |-> TRUE, ret |-> TRUE]

mut_ETH_disconnect(c) ==
    \* treats a disconnect without a connection as an error, as read_data does
    IF c THEN [connected |-> FALSE, err |-> "none"]
         ELSE [connected |-> c, err |-> "NotConnected"]

ETH_disconnect(c) ==
    [connected |-> IF c THEN FALSE ELSE c, err |-> "none"]

mut_ETH_read_data(c, duration, num_channels, loss) ==
    IF ~c
    THEN Raise("NotConnected")
    ELSE IF loss
         THEN Raise("NetworkError")
         ELSE Return((duration * eth_sampling_rate) \div 1000, num_channels, FALSE)

ETH_read_data(c, duration, num_channels, loss) ==
    IF ~c
    THEN Raise("NotConnected")
    ELSE LET n == (duration * eth_sampling_rate) \div 1000
         IN  Return(n, num_channels, loss /\ n > 0 /\ num_channels > 0)

ETH_send_command(c, fail) ==
    IF ~c THEN Raise("NotConnected")
    ELSE IF fail THEN Raise("NetworkError")
    ELSE Return(0, 0, FALSE)

---------------------------------------------------------------------------
(* generate_test_data of the six simulators.  A routine is the list of the *)
(* session calls of its try block, in program order; the first call that   *)
(* fails (connect returning False makes the routine raise ConnectionError; *)
(* read_data / send_command raise themselves) ends the try block, the      *)
(* except clause re-raises, and the finally clause disconnects.            *)

Call(sess, op, arg, ok, err) ==
    [sess |-> sess, op |-> op, arg |-> arg, ok |-> ok, err |-> err]

ConnectCall(sess, arg, r) ==
    Call(sess, "connect", arg, r.ret, IF r.ret THEN "none" ELSE "ConnectFailed")

ReadCall(sess, arg, r) ==
    Call(sess, "read_data", arg, r.err = "none", r.err)

CommandCall(sess, r) ==
    Call(sess, "send_command", "-", r.err = "none", r.err)

DisconnectCall(sess) ==
    Call(sess, "disconnect", "-", TRUE, "none")

\* index of the first failing call of steps, or Len(steps) + 1
FirstFailure(steps) ==
    IF \E k \in 1..Len(steps) : ~steps[k].ok
    THEN CHOOSE k \in 1..Len(steps) :
            ~steps[k].ok /\ \A j \in 1..(k - 1) : steps[j].ok
    ELSE Len(steps) + 1

\* the calls the try block actually makes
Executed(steps) ==
    SubSeq(steps, 1, IF FirstFailure(steps) > Len(steps) THEN Len(steps)
                                                         ELSE FirstFailure(steps))

\* the exception that leaves the try block: that of the first failing call,
\* else the transform's, else none
Outcome(steps, transformErr) ==
    IF FirstFailure(steps) <= Len(steps)
    THEN steps[FirstFailure(steps)].err
    ELSE transformErr

\* what generate_test_data leaves behind and hands back
Gen(conn, steps, transformErr, rows, lost, finally) ==
    LET err == Outcome(steps, transformErr)
    IN  [connected |-> conn,
         err       |-> err,
         ret       |-> IF err = "none" THEN "DataFrame" ELSE "raised",
         rows      |-> IF err = "none" THEN rows ELSE 0,
         lost      |-> err = "none" /\ lost,
         calls     |-> Executed(steps) \o finally]

\* pd.DataFrame([]) has no columns: df['resistance'] raises KeyError
EmptyFrameError(n) == IF n = 0 THEN "KeyError" ELSE "none"

mut_IsolationSimulator_generate_test_data(conn, duration) ==
    LET c     == DAQ_connect(conn["daq"], "analog")
        r     == DAQ_read_data(c.connected, "analog", duration, 1)
        steps == <<ConnectCall("daq", "analog", c), ReadCall("daq", "analog", r)>>
        terr  == EmptyFrameError(r.num_samples)
        \* disconnect at the end of the try block instead of in finally
        after == IF Outcome(steps, terr) = "none"
                 THEN DAQ_disconnect(c.connected).connected ELSE c.connected
    IN  Gen([conn EXCEPT !["daq"] = after], steps, terr, r.num_samples, FALSE,
            IF Outcome(steps, terr) = "none" THEN <<DisconnectCall("daq")>> ELSE <<>>)

IsolationSimulator_generate_test_data(conn, duration) ==
    LET c     == DAQ_connect(conn["daq"], "analog")
        r     == DAQ_read_data(c.connected, "analog", duration, 1)
        steps == <<ConnectCall("daq", "analog", c), ReadCall("daq", "analog", r)>>
    IN  Gen([conn EXCEPT !["daq"] = DAQ_disconnect(c.connected).connected],
            steps, EmptyFrameError(r.num_samples), r.num_samples, FALSE,
            <<DisconnectCall("daq")>>)

ParametricSimulator_generate_test_data(conn, duration) ==
    LET c     == DAQ_connect(conn["daq"], "analog")
        v     == DAQ_read_data(c.connected, "analog", duration, 1)
        i     == DAQ_read_data(c.connected, "analog", duration, 1)
        steps == <<ConnectCall("daq", "analog", c), ReadCall("daq", "analog", v),
                   ReadCall("daq", "analog", i)>>
    IN  Gen([conn EXCEPT !["daq"] = DAQ_disconnect(c.connected).connected],
            steps, EmptyFrameError(v.num_samples), v.num_samples, FALSE,
            <<DisconnectCall("daq")>>)

HiPotSimulator_generate_test_data(conn, duration) ==
    LET c     == DAQ_connect(conn["daq"], "analog")
        v     == DAQ_read_data(c.connected, "analog", duration, 1)
        i     == DAQ_read_data(c.connected, "analog", duration, 1)
        steps == <<ConnectCall("daq", "analog", c), ReadCall("daq", "analog", v),
                   ReadCall("daq", "analog", i)>>
    IN  Gen([conn EXCEPT !["daq"] = DAQ_disconnect(c.connected).connected],
            steps, EmptyFrameError(v.num_samples), v.num_samples, FALSE,
            <<DisconnectCall("daq")>>)

BurnInSimulator_generate_test_data(conn, duration) ==
    LET c1    == DAQ_connect(conn["daq"], "analog")
        t     == DAQ_read_data(c1.connected, "analog", duration, 1)
        c2    == DAQ_connect(c1.connected, "digital")
        s     == DAQ_read_data(c2.connected, "digital", duration, 1)
        steps == <<ConnectCall("daq", "analog", c1), ReadCall("daq", "analog", t),
                   ConnectCall("daq", "digital", c2), ReadCall("daq", "digital", s)>>
        \* self.connected when the finally clause runs
        atEnd == IF FirstFailure(steps) <= 2 THEN c1.connected ELSE c2.connected
    IN  Gen([conn EXCEPT !["daq"] = DAQ_disconnect(atEnd).connected],
            steps, "none", t.num_samples, FALSE, <<DisconnectCall("daq")>>)

ICTSimulator_generate_test_data(conn, duration) ==
    LET c     == DAQ_connect(conn["daq"], "analog")
        steps == <<ConnectCall("daq", "analog", c)>>
    IN  Gen([conn EXCEPT !["daq"] = DAQ_disconnect(c.connected).connected],
            steps, "none", ICT_points, FALSE, <<DisconnectCall("daq")>>)

\* connection_type = 'daq': data[0] is a Python list, and list * 50 + 55
\* raises TypeError whatever was read
LaserSimulator_generate_test_data_daq(conn, duration) ==
    LET c     == DAQ_connect(conn["daq"], "analog")
        p     == DAQ_read_data(c.connected, "analog", duration, 1)
        w     == DAQ_read_data(c.connected, "analog", duration, 1)
        steps == <<ConnectCall("daq", "analog", c), ReadCall("daq", "analog", p),
                   ReadCall("daq", "analog", w)>>
    IN  Gen([conn EXCEPT !["daq"] = DAQ_disconnect(c.connected).connected],
            steps, "TypeError", p.num_samples, FALSE, <<DisconnectCall("daq")>>)

\* rolls: the random outcomes drawn during the call, in program order
LaserRolls ==
    [pm_connect : BOOLEAN, wa_connect : BOOLEAN, pm_command : BOOLEAN,
     wa_command : BOOLEAN, pm_loss : BOOLEAN, wa_loss : BOOLEAN]

mut_LaserSimulator_generate_test_data_ethernet(conn, duration, rolls) ==
    LET PM    == "power_meter"
        WA    == "wavelength_analyzer"
        \* a failed connect is retried once instead of raised
        p0    == ETH_connect(conn[PM], rolls.pm_connect)
        p     == IF p0.ret THEN p0 ELSE ETH_connect(p0.connected, FALSE)
        w     == ETH_connect(conn[WA], rolls.wa_connect)
        cp    == ETH_send_command(p.connected, rolls.pm_command)
        cw    == ETH_send_command(w.connected, rolls.wa_command)
        rp    == ETH_read_data(p.connected, duration, 1, rolls.pm_loss)
        rw    == ETH_read_data(w.connected, duration, 1, rolls.wa_loss)
        steps == <<ConnectCall(PM, "-", p), ConnectCall(WA, "-", w),
                   CommandCall(PM, cp), CommandCall(WA, cw),
                   ReadCall(PM, "-", rp), ReadCall(WA, "-", rw)>>
        first == IF p0.ret THEN <<>>
                 ELSE <<ConnectCall(PM, "-", p0)>>
        g     == Gen([conn EXCEPT ![PM] = ETH_disconnect(p.connected).connected,
                                  ![WA] = ETH_disconnect(w.connected).connected],
                     steps, "none", rp.num_samples, rp.lost,
                     <<DisconnectCall(PM), DisconnectCall(WA)>>)
    IN  [g EXCEPT !.calls = first \o g.calls]

LaserSimulator_generate_test_data_ethernet(conn, duration, rolls) ==
    LET PM    == "power_meter"
        WA    == "wavelength_analyzer"
        p     == ETH_connect(conn[PM], rolls.pm_connect)
        w     == ETH_connect(conn[WA], rolls.wa_connect)
        cp    == ETH_send_command(p.connected, rolls.pm_command)
        cw    == ETH_send_command(w.connected, rolls.wa_command)
        rp    == ETH_read_data(p.connected, duration, 1, rolls.pm_loss)
        rw    == ETH_read_data(w.connected, duration, 1, rolls.wa_loss)
        steps == <<ConnectCall(PM, "-", p), ConnectCall(WA, "-", w),
                   CommandCall(PM, cp), CommandCall(WA, cw),
                   ReadCall(PM, "-", rp), ReadCall(WA, "-", rw)>>
        \* the analyzer's connect is attempted only if the meter's succeeded
        wEnd  == IF FirstFailure(steps) = 1 THEN conn[WA] ELSE w.connected
    IN  Gen([conn EXCEPT ![PM] = ETH_disconnect(p.connected).connected,
                         ![WA] = ETH_disconnect(wEnd).connected],
            steps, "none", rp.num_samples, rp.lost,
            <<DisconnectCall(PM), DisconnectCall(WA)>>)

---------------------------------------------------------------------------
(* The digital signal source: DAQSimulator._simulate_digital_data.  The    *)
(* code's 0-based index i is i + 1 here.                                   *)

BitSeqs(n) == [1..n -> {0, 1}]

mut_HoldState(states, i) ==
    \* range(1, 4): one sample short
    [k \in 1..Len(states) |->
        IF k > i /\ k < i + DebounceWindow THEN states[i] ELSE states[k]]

\* lines 92-94: for j in range(1, 5): if i+j < len(states): states[i+j] = states[i]
HoldState(states, i) ==
    [k \in 1..Len(states) |->
        IF k > i /\ k <= i + DebounceWindow THEN states[i] ELSE states[k]]

RECURSIVE DebounceFrom(_, _)
\* lines 89-94: the in-place, left-to-right pass, from index i on
DebounceFrom(states, i) ==
    IF i > Len(states)
    THEN states
    ELSE DebounceFrom(IF states[i] # states[i - 1] THEN HoldState(states, i)
                                                    ELSE states,
                      i + 1)

\* raw[ch] is the list of random.randint(0, 1) draws of channel ch
simulate_digital_data(raw) ==
    [ch \in 1..Len(raw) |-> DebounceFrom(raw[ch], 2)]

---------------------------------------------------------------------------
(* State machine *)

NoCall ==
    [op |-> "init", sess |-> "-", src |-> "-", duration |-> 0, num_channels |-> 0,
     pre |-> FALSE, ret |-> "-", err |-> "none", num_samples |-> 0,
     out_channels |-> 0, lost |-> FALSE, calls |-> <<>>]

\* no DataFrame has been built yet
NoTable == [profile |-> "none", raw |-> <<>>, table |-> <<>>, err |-> "none"]

\* no DataFrame has been analysed yet
NoAnalysis ==
    [test |-> "none", column |-> "none", has_columns |-> FALSE, x |-> <<>>,
     pass_fail |-> <<>>, analysed |-> FALSE, out |-> [err |-> "none"]]

\* no ETL call has been made and the table is empty
NoIngest ==
    [routine |-> "none", table |-> <<>>, op |-> "init", err |-> "none"]

\* the observation of a session call that returned or raised r
Obs(op, sess, src, duration, nch, pre, ret, r) ==
    [op |-> op, sess |-> sess, src |-> src, duration |-> duration,
     num_channels |-> nch, pre |-> pre, ret |-> ret, err |-> r.err,
     num_samples |-> r.num_samples, out_channels |-> r.num_channels,
     lost |-> r.lost, calls |-> <<>>]

Init ==
    /\ sim \in Simulators
    /\ connected = [s \in Sessions |-> FALSE]
    /\ closed = [s \in Sessions |-> FALSE]
    /\ last = NoCall
    /\ digital_raw = <<>>
    /\ digital_out = <<>>
    /\ prof = NoTable
    /\ stats = NoAnalysis
    /\ ing = NoIngest

EthSessions == {"power_meter", "wavelength_analyzer"}

DaqConnect(source_type) ==
    /\ sim \in DaqSimulators
    /\ LET r == DAQ_connect(connected["daq"], source_type)
       IN  /\ connected' = [connected EXCEPT !["daq"] = r.connected]
           /\ closed' = [closed EXCEPT !["daq"] = @ \/ ~r.ret]
           /\ last' = Obs("connect", "daq", source_type, 0, 0, connected["daq"],
                          IF r.ret THEN "True" ELSE "False", Return(0, 0, FALSE))
    /\ UNCHANGED <<sim, digital_raw, digital_out, prof, stats, ing>>

DaqDisconnect ==
    /\ sim \in DaqSimulators
    /\ LET r == DAQ_disconnect(connected["daq"])
       IN  /\ connected' = [connected EXCEPT !["daq"] = r.connected]
           /\ last' = Obs("disconnect", "daq", "-", 0, 0, connected["daq"],
                          IF r.err = "none" THEN "None" ELSE "raised",
                          IF r.err = "none" THEN Return(0, 0, FALSE) ELSE Raise(r.err))
    /\ closed' = [closed EXCEPT !["daq"] = TRUE]
    /\ UNCHANGED <<sim, digital_raw, digital_out, prof, stats, ing>>

mut_DaqReadData(source_type, duration, num_channels) ==
    \* a read that raises drops the connection
    /\ sim \in DaqSimulators
    /\ LET r == DAQ_read_data(connected["daq"], source_type, duration, num_channels)
       IN  /\ closed' = [closed EXCEPT !["daq"] = @ \/ r.err # "none"]
           /\ connected' = [connected EXCEPT !["daq"] = @ /\ r.err = "none"]
           /\ last' = Obs("read_data", "daq", source_type, duration, num_channels,
                          connected["daq"],
                          IF r.err = "none" THEN "dict" ELSE "raised", r)
    /\ UNCHANGED <<sim, digital_raw, digital_out, prof, stats, ing>>

DaqReadData(source_type, duration, num_channels) ==
    /\ sim \in DaqSimulators
    /\ LET r == DAQ_read_data(connected["daq"], source_type, duration, num_channels)
       IN  /\ closed' = [closed EXCEPT !["daq"] = @ \/ r.err # "none"]
           /\ last' = Obs("read_data", "daq", source_type, duration, num_channels,
                          connected["daq"],
                          IF r.err = "none" THEN "dict" ELSE "raised", r)
    /\ UNCHANGED <<sim, connected, digital_raw, digital_out, prof, stats, ing>>

\* simulate_daq_data called directly: it does not look at self.connected
DaqSimulateData(source_type, duration, num_channels) ==
    /\ sim \in DaqSimulators
    /\ LET r == simulate_daq_data(source_type, duration, num_channels)
       IN  /\ closed' = [closed EXCEPT !["daq"] = @ \/ r.err # "none"]
           /\ last' = Obs("simulate_daq_data", "daq", source_type, duration,
                          num_channels, connected["daq"],
                          IF r.err = "none" THEN "dict" ELSE "raised", r)
    /\ UNCHANGED <<sim, connected, digital_raw, digital_out, prof, stats, ing>>

EthConnect(s) ==
    /\ sim = "laser_ethernet"
    /\ \E fail \in BOOLEAN :
        LET r == ETH_connect(connected[s], fail)
        IN  /\ connected' = [connected EXCEPT ![s] = r.connected]
            /\ closed' = [closed EXCEPT ![s] = @ \/ ~r.ret]
            /\ last' = Obs("connect", s, "-", 0, 0, connected[s],
                           IF r.ret THEN "True" ELSE "False", Return(0, 0, FALSE))
    /\ UNCHANGED <<sim, digital_raw, digital_out, prof, stats, ing>>

EthDisconnect(s) ==
    /\ sim = "laser_ethernet"
    /\ LET r == ETH_disconnect(connected[s])
       IN  /\ connected' = [connected EXCEPT ![s] = r.connected]
           /\ last' = Obs("disconnect", s, "-", 0, 0, connected[s],
                          IF r.err = "none" THEN "None" ELSE "raised",
                          IF r.err = "none" THEN Return(0, 0, FALSE) ELSE Raise(r.err))
    /\ closed' = [closed EXCEPT ![s] = TRUE]
    /\ UNCHANGED <<sim, digital_raw, digital_out, prof, stats, ing>>

EthReadData(s, duration, num_channels) ==
    /\ sim = "laser_ethernet"
    /\ \E loss \in BOOLEAN :
        LET r == ETH_read_data(connected[s], duration, num_channels, loss)
        IN  /\ closed' = [closed EXCEPT ![s] = @ \/ r.err # "none"]
            /\ last' = Obs("read_data", s, "-", duration, num_channels,
                           connected[s],
                           IF r.err = "none" THEN "dict" ELSE "raised", r)
    /\ UNCHANGED <<sim, connected, digital_raw, digital_out, prof, stats, ing>>

EthSendCommand(s) ==
    /\ sim = "laser_ethernet"
    /\ \E fail \in BOOLEAN :
        LET r == ETH_send_command(connected[s], fail)
        IN  /\ closed' = [closed EXCEPT ![s] = @ \/ r.err # "none"]
            /\ last' = Obs("send_command", s, "-", 0, 0, connected[s],
                           IF r.err = "none" THEN "str" ELSE "raised", r)
    /\ UNCHANGED <<sim, connected, digital_raw, digital_out, prof, stats, ing>>

\* a finished generate_test_data call with result g
Generated(duration, g) ==
    /\ connected' = g.connected
    /\ closed' = [s \in Sessions |-> closed[s] \/ s \in SessionsOf(sim)]
    /\ last' = [op |-> "generate_test_data", sess |-> "-", src |-> "-",
                duration |-> duration, num_channels |-> 0, pre |-> FALSE,
                ret |-> g.ret, err |-> g.err, num_samples |-> g.rows,
                out_channels |-> 0, lost |-> g.lost, calls |-> g.calls]
    /\ UNCHANGED <<sim, digital_raw, digital_out, prof, stats, ing>>

GenerateIsolation(duration) ==
    /\ sim = "isolation"
    /\ Generated(duration, IsolationSimulator_generate_test_data(connected, duration))

GenerateParametric(duration) ==
    /\ sim = "parametric"
    /\ Generated(duration, ParametricSimulator_generate_test_data(connected, duration))

GenerateHiPot(duration) ==
    /\ sim = "hipot"
    /\ Generated(duration, HiPotSimulator_generate_test_data(connected, duration))

GenerateBurnIn(duration) ==
    /\ sim = "burnin"
    /\ Generated(duration, BurnInSimulator_generate_test_data(connected, duration))

GenerateICT(duration) ==
    /\ sim = "ict"
    /\ Generated(duration, ICTSimulator_generate_test_data(connected, duration))

GenerateLaserDaq(duration) ==
    /\ sim = "laser_daq"
    /\ Generated(duration, LaserSimulator_generate_test_data_daq(connected, duration))

GenerateLaserEthernet(duration) ==
    /\ sim = "laser_ethernet"
    /\ \E rolls \in LaserRolls :
        Generated(duration,
                  LaserSimulator_generate_test_data_ethernet(connected, duration, rolls))

Next ==
    \/ \E st \in SourceTypes : DaqConnect(st)
    \/ DaqDisconnect
    \/ \E st \in SourceTypes, d \in Durations, n \in ChannelCounts : DaqReadData(st, d, n)
    \/ \E st \in SourceTypes, d \in Durations, n \in ChannelCounts : DaqSimulateData(st, d, n)
    \/ \E s \in EthSessions : EthConnect(s)
    \/ \E s \in EthSessions : EthDisconnect(s)
    \/ \E s \in EthSessions, d \in Durations, n \in ChannelCounts : EthReadData(s, d, n)
    \/ \E s \in EthSessions : EthSendCommand(s)
    \/ \E d \in Durations : GenerateIsolation(d)
    \/ \E d \in Durations : GenerateParametric(d)
    \/ \E d \in Durations : GenerateHiPot(d)
    \/ \E d \in Durations : GenerateBurnIn(d)
    \/ \E d \in Durations : GenerateICT(d)
    \/ \E d \in Durations : GenerateLaserDaq(d)
    \/ \E d \in Durations : GenerateLaserEthernet(d)

Spec == Init /\ [][Next]_vars

---------------------------------------------------------------------------
(* The digital source on its own: one call of _simulate_digital_data with  *)
(* num_samples in 0..MaxSamples and num_channels in 1..MaxDigitalChannels. *)

InitSignal ==
    /\ sim = "burnin"
    /\ connected = [s \in Sessions |-> FALSE]
    /\ closed = [s \in Sessions |-> FALSE]
    /\ last = NoCall
    /\ digital_raw = <<>>
    /\ digital_out = <<>>
    /\ prof = NoTable
    /\ stats = NoAnalysis
    /\ ing = NoIngest

SimulateDigitalData(num_samples, num_channels) ==
    /\ digital_out = <<>>
    /\ \E raw \in [1..num_channels -> BitSeqs(num_samples)] :
        /\ digital_raw' = raw
        /\ digital_out' = simulate_digital_data(raw)
    /\ UNCHANGED <<sim, connected, closed, last, prof, stats, ing>>

NextSignal ==
    \E n \in 0..MaxSamples, c \in 1..MaxDigitalChannels : SimulateDigitalData(n, c)

SpecSignal == InitSignal /\ [][NextSignal]_vars

---------------------------------------------------------------------------
(* Properties *)

IsGenerate == last.op = "generate_test_data"
IsDirect(op, sessions) == last.op = op /\ last.sess \in sessions
AnalogDigital == {"analog", "digital"}

\* C1: when a generate_test_data call of any simulator has finished, by
\* returning a table or by raising, every session the simulator owns is
\* Disconnected, and the call's last calls are the disconnects of finally.
C1_DisconnectedOnEveryExit ==
    IsGenerate =>
        \A s \in SessionsOf(sim) :
            /\ ~connected[s]
            /\ \E k \in 1..Len(last.calls) :
                  /\ last.calls[k].sess = s /\ last.calls[k].op = "disconnect"
                  /\ \A j \in k..Len(last.calls) : last.calls[j].op = "disconnect"

\* a call that connected both instruments, lost a command and raised
C1_Witness ==
    /\ IsGenerate /\ sim = "laser_ethernet"
    /\ last.err = "NetworkError"
    /\ Len(last.calls) >= 2 /\ last.calls[1].ok /\ last.calls[2].ok
    /\ \A s \in SessionsOf(sim) : ~connected[s]

\* C2: read_data on a Disconnected session (DAQ or networked instrument)
\* raises the not-connected ConnectionError and yields no samples, whatever
\* the source type, duration and channel count.
C2_ReadWhileDisconnected ==
    (IsDirect("read_data", Sessions) /\ ~last.pre) =>
        /\ last.err = "NotConnected"
        /\ last.ret = "raised"
        /\ last.num_samples = 0 /\ last.out_channels = 0

\* a digital read, with samples and channels asked for, of a Disconnected session
C2_Witness ==
    /\ IsDirect("read_data", {"daq"}) /\ ~last.pre
    /\ closed["daq"]
    /\ last.src = "digital" /\ last.duration > 0 /\ last.num_channels > 0
    /\ last.err = "NotConnected"

\* C3 as stated: once a session has been disconnected explicitly or has hit
\* an error it is never Connected again.
C3_DisconnectedIsTerminal ==
    \A s \in Sessions : closed[s] => ~connected[s]

\* C3 amended: the lifecycle is Disconnected -> Connected -> Disconnected and
\* may repeat.  A session becomes Connected only by a connect that returns
\* True, it becomes Disconnected only by disconnect (called directly or by
\* the finally clause of generate_test_data), and a call that fails leaves
\* the state as it was.
C3_LifecycleSteps ==
    [][\A s \in Sessions :
          /\ (~connected[s] /\ connected'[s]) =>
                (last'.op = "connect" /\ last'.sess = s /\ last'.ret = "True")
          /\ (connected[s] /\ ~connected'[s]) =>
                \/ (last'.op = "disconnect" /\ last'.sess = s)
                \/ (last'.op = "generate_test_data" /\ s \in SessionsOf(sim))
          /\ (last'.sess = s /\ (last'.err # "none" \/ last'.ret = "False")) =>
                connected'[s] = connected[s]]_vars

\* a session that was closed is Connected again
C3_Witness ==
    \E s \in Sessions :
        closed[s] /\ connected[s] /\ last.op = "connect" /\ last.sess = s /\ ~last.pre

\* C4: a connect() of a networked instrument that reports failure leaves
\* the session's state exactly as it was before the call.
C4_FailedConnectChangesNothing ==
    (IsDirect("connect", EthSessions) /\ last.ret = "False") =>
        connected[last.sess] = last.pre

\* a failed connect on a session that was Connected
C4_Witness ==
    /\ IsDirect("connect", EthSessions) /\ last.ret = "False"
    /\ last.pre /\ connected[last.sess]

\* C5: connect() on the DAQ session for analog or digital always returns
\* True and leaves the session Connected, called directly or from a
\* generate_test_data routine.
C5_DaqConnectAlwaysSucceeds ==
    /\ (IsDirect("connect", {"daq"}) /\ last.src \in AnalogDigital) =>
          (last.ret = "True" /\ last.err = "none" /\ connected["daq"])
    /\ IsGenerate =>
          \A k \in 1..Len(last.calls) :
              (last.calls[k].sess = "daq" /\ last.calls[k].op = "connect") =>
                  last.calls[k].ok

\* a digital connect on a session that was already Connected
C5_Witness ==
    /\ IsDirect("connect", {"daq"}) /\ last.src = "digital"
    /\ last.pre /\ last.ret = "True" /\ connected["daq"]

\* C6: disconnect() never raises and leaves the session Disconnected; called
\* on a Disconnected session it changes no session's state, so repeated
\* calls leave what one call leaves.
C6_DisconnectIdempotent ==
    [][(last'.op = "disconnect") =>
          /\ last'.err = "none"
          /\ ~connected'[last'.sess]
          /\ ~connected[last'.sess] => connected' = connected]_vars

\* a disconnect called on a session that was Disconnected
C6_Witness ==
    /\ last.op = "disconnect" /\ ~last.pre /\ last.err = "none"
    /\ closed[last.sess] /\ ~connected[last.sess]

\* C7: simulate_daq_data with a source type other than analog, digital or
\* ethernet raises the unsupported-source error and returns no timestamps
\* and no channel data, for every duration and channel count.
C7_UnsupportedSourceRaises ==
    (IsDirect("simulate_daq_data", {"daq"}) /\ last.src \notin Recognized) =>
        /\ last.err = "UnsupportedSourceType"
        /\ last.ret = "raised"
        /\ last.num_samples = 0 /\ last.out_channels = 0

C7_Witness ==
    /\ IsDirect("simulate_daq_data", {"daq"}) /\ last.src = "usb"
    /\ last.duration > 0 /\ last.num_channels > 0
    /\ last.err = "UnsupportedSourceType"

\* C8: if a connect reports failure during generate_test_data, the routine
\* makes no later read and no second connect on that instrument, and the
\* caller gets a connection error, not a table.
C8_NoRetryAfterFailedConnect ==
    IsGenerate =>
        \A k \in 1..Len(last.calls) :
            (last.calls[k].op = "connect" /\ ~last.calls[k].ok) =>
                /\ \A j \in (k + 1)..Len(last.calls) :
                      last.calls[j].sess = last.calls[k].sess =>
                          last.calls[j].op \notin {"connect", "read_data", "send_command"}
                /\ \A j \in 1..Len(last.calls) : last.calls[j].op # "read_data"
                /\ last.err = "ConnectFailed"
                /\ last.ret = "raised" /\ last.num_samples = 0

\* the power meter connected, the wavelength analyzer did not
C8_Witness ==
    /\ IsGenerate /\ Len(last.calls) >= 2
    /\ last.calls[1].op = "connect" /\ last.calls[1].ok
    /\ last.calls[2].op = "connect" /\ ~last.calls[2].ok
    /\ last.err = "ConnectFailed"

\* a failure that neither the session state nor the arguments explain
Transient(o) ==
    \/ o.op = "connect" /\ o.ret = "False"
    \/ /\ o.op \in {"read_data", "send_command", "simulate_daq_data"}
       /\ o.err # "none"
       /\ ~(o.op # "simulate_daq_data" /\ ~o.pre)
       /\ ~(o.sess = "daq" /\ o.src \notin Recognized)
       /\ ~(o.sess = "daq" /\ o.src = "ethernet" /\ o.err = "IndexError"
             /\ o.duration * sampling_rate < 1000 /\ o.num_channels > 0)

\* inside generate_test_data every call is made after a successful connect
\* and with a recognised source, so every failed call is transient
FailedCalls == {k \in 1..Len(last.calls) : ~last.calls[k].ok}

\* C9 as stated: transient failure arises only from connect() of a
\* networked instrument; read and command of a Connected instrument and all
\* DAQ operations never fail randomly.
C9_OnlyConnectFailsRandomly ==
    /\ Transient(last) => (last.op = "connect" /\ last.sess \in EthSessions)
    /\ IsGenerate =>
          \A k \in FailedCalls :
              last.calls[k].op = "connect" /\ last.calls[k].sess \in EthSessions

\* C9 amended: transient failure arises only from connect() and
\* send_command() of a networked instrument; read_data of a Connected
\* instrument and all DAQ operations never fail randomly.
C9_OnlyConnectAndCommandFailRandomly ==
    /\ Transient(last) =>
          (last.op \in {"connect", "send_command"} /\ last.sess \in EthSessions)
    /\ IsGenerate =>
          \A k \in FailedCalls :
              /\ last.calls[k].op \in {"connect", "send_command"}
              /\ last.calls[k].sess \in EthSessions

\* a command to a Connected instrument that failed with the network error
C9_Witness ==
    /\ IsDirect("send_command", EthSessions) /\ last.pre
    /\ last.err = "NetworkError" /\ connected[last.sess]

\* C10: in every channel the digital source returns, a transition at index
\* i >= 1 is followed by DebounceWindow samples (or as many as the stream
\* still has) equal to the sample at i.
C10_DebounceHoldsAfterTransition ==
    \A ch \in 1..Len(digital_out) :
        \A i \in 2..Len(digital_out[ch]) :
            digital_out[ch][i] # digital_out[ch][i - 1] =>
                \A j \in 1..DebounceWindow :
                    i + j <= Len(digital_out[ch]) =>
                        digital_out[ch][i + j] = digital_out[ch][i]

\* a transition with a full window after it, in which the pass overwrote a
\* draw that differed, and a transition close to the end of the stream
C10_Witness ==
    \E ch \in 1..Len(digital_out) :
        \E i \in 2..Len(digital_out[ch]) :
            /\ digital_out[ch][i] # digital_out[ch][i - 1]
            /\ i + DebounceWindow + 1 <= Len(digital_out[ch])
            /\ digital_raw[ch][i + DebounceWindow] # digital_out[ch][i]
            /\ digital_out[ch][i + DebounceWindow + 1] # digital_out[ch][i]

---------------------------------------------------------------------------
(* Shape of the generated data *)

\* a call of the signal source whose preconditions are met
IsGenerateCall(o) ==
    \/ o.op = "simulate_daq_data" /\ o.src \in Recognized
    \/ o.op = "read_data" /\ o.pre /\ (o.sess = "daq" => o.src \in Recognized)

\* the sampling rates the claim names: 1000 analog, 1000 digital, 10 ethernet
ClaimedRate(o) ==
    IF o.sess \in EthSessions \/ o.src = "ethernet"
    THEN eth_sampling_rate ELSE sampling_rate

\* the sampling rate of the object that is called
ObjectRate(o) ==
    IF o.sess \in EthSessions THEN eth_sampling_rate ELSE sampling_rate

---------------------------------------------------------------------------
(* Part 3: the DataFrame built by generate_test_data.                      *)
(*                                                                         *)
(* The sessions are those of Part 1; here the samples have values.  A raw  *)
(* sample is a float in the code and a fixed-point integer here: in        *)
(* millionths for the isolation test, thousandths for the parametric and   *)
(* HiPot tests, hundredths for the laser test.  A sample of the network    *)
(* instruments is a cell [nan, v]: read_data overwrites a lost sample with *)
(* np.nan (ethernet_sim.py:98-100).                                        *)

\* rows built per table: 0..MaxRows
MaxRows == 2

Millionth == 1000000
Thousandth == 1000
Hundredth == 100

Abs(x) == IF x < 0 THEN -x ELSE x

nan == [nan |-> TRUE, v |-> 0]
Float(x) == [nan |-> FALSE, v |-> x]

\* a * x + b in float arithmetic: NaN propagates
Affine(cell, a, b) == IF cell.nan THEN nan ELSE Float(cell.v * a + b)

\* lo <= cell <= hi: every comparison with NaN is False
Between(cell, lo, hi) == ~cell.nan /\ lo <= cell.v /\ cell.v <= hi

\* raw samples tried, around the thresholds of each test
IsolationRaw == {-200, -100, -99, 0, 99, 100}
ParametricRawVoltage == {-3300, 3199, 3200, 3400, 3401, 3500, 4000}
ParametricRawCurrent == {449, 450, -500, 550, 551}
HiPotRawVoltage == {-1000, 900}
HiPotRawCurrent == {-1200, -500, 999, 1000}
LaserRawPower == {nan, Float(-10), Float(20), Float(50), Float(100)}
LaserRawWavelength == {nan, Float(50)}

resistance_scale == 1000000
resistance_min == 100

mut_IsolationRow(raw) ==
    \* the sign of the raw sample is kept
    LET resistance == (raw * resistance_scale) \div Millionth
    IN  [resistance |-> resistance,
         pass_fail |-> IF resistance >= resistance_min THEN 1 ELSE 0]

\* isolation_simulation.py:44-51; resistance in megaohm
IsolationRow(raw) ==
    LET resistance == (Abs(raw) * resistance_scale) \div Millionth
    IN  [resistance |-> resistance,
         pass_fail |-> IF resistance >= resistance_min THEN 1 ELSE 0]

voltage_scale == 1000
current_scale == 1000
voltage_min == 3200
voltage_max == 3400
current_min == 450
current_max == 550
power_max == 2000

mut_power_ParametricRow(raw_v, raw_i) ==
    \* a power limit of 1800, inside what the two ranges allow
    LET voltage == (Abs(raw_v) * voltage_scale) \div Thousandth
        current == (Abs(raw_i) * current_scale) \div Thousandth
        power_x1000 == voltage * current
    IN  [voltage |-> voltage, current |-> current, power_x1000 |-> power_x1000,
         pass_fail |-> IF /\ voltage >= voltage_min /\ voltage <= voltage_max
                          /\ current >= current_min /\ current <= current_max
                          /\ power_x1000 <= 1800 * 1000
                       THEN 1 ELSE 0]

mut_ParametricRow(raw_v, raw_i) ==
    \* the upper voltage limit is not applied
    LET voltage == (Abs(raw_v) * voltage_scale) \div Thousandth
        current == (Abs(raw_i) * current_scale) \div Thousandth
        power_x1000 == voltage * current
    IN  [voltage |-> voltage, current |-> current, power_x1000 |-> power_x1000,
         pass_fail |-> IF /\ voltage >= voltage_min
                          /\ current >= current_min /\ current <= current_max
                          /\ power_x1000 <= power_max * 1000
                       THEN 1 ELSE 0]

\* parametric_simulation.py:66-81; voltage in mV, current in mA; the power
\* voltage * current / 1000 is kept as its thousandfold, an integer
ParametricRow(raw_v, raw_i) ==
    LET voltage == (Abs(raw_v) * voltage_scale) \div Thousandth
        current == (Abs(raw_i) * current_scale) \div Thousandth
        power_x1000 == voltage * current
    IN  [voltage |-> voltage, current |-> current, power_x1000 |-> power_x1000,
         pass_fail |-> IF /\ voltage >= voltage_min /\ voltage <= voltage_max
                          /\ current >= current_min /\ current <= current_max
                          /\ power_x1000 <= power_max * 1000
                       THEN 1 ELSE 0]

hipot_voltage_scale == 5
hipot_current_scale == 1
hipot_current_limit == 1

\* hipot_simulation.py:187-198; voltage in thousandths of a kV, current in
\* thousandths of a mA
HiPotRow(raw_v, raw_i) ==
    LET voltage == Abs(raw_v) * hipot_voltage_scale
        current == Abs(raw_i) * hipot_current_scale
    IN  [voltage |-> voltage, current |-> current,
         pass_fail |-> IF current < hipot_current_limit * Thousandth THEN 1 ELSE 0]

power_slope == 50
power_offset == 55
wavelength_slope == 25
wavelength_offset == 825
laser_power_min == 10
laser_power_max == 100
laser_wavelength_min == 800
laser_wavelength_max == 850

Laser_power(cell) == Affine(cell, power_slope, power_offset * Hundredth)
Laser_wavelength(cell) == Affine(cell, wavelength_slope, wavelength_offset * Hundredth)

\* laser_simulation.py:119-128; power in hundredths of a mW, wavelength in
\* hundredths of a nm.  Both columns are computed from power_data['data'][0]:
\* wavelength_data is read (line 108) and not used.
LaserRow(raw_power, raw_wavelength) ==
    LET power == Laser_power(raw_power)
        wavelength == Laser_wavelength(raw_power)
    IN  [power |-> power, wavelength |-> wavelength,
         pass_fail |->
            IF /\ Between(power, laser_power_min * Hundredth, laser_power_max * Hundredth)
               /\ Between(wavelength, laser_wavelength_min * Hundredth,
                          laser_wavelength_max * Hundredth)
            THEN 1 ELSE 0]

\* pd.DataFrame(data) of a list of row dicts, then df[column]: an empty list
\* gives a frame without columns and df[column] raises KeyError
FrameOfRows(profile, raw, rows) ==
    IF rows = <<>>
    THEN [profile |-> profile, raw |-> raw, table |-> <<>>, err |-> "KeyError"]
    ELSE [profile |-> profile, raw |-> raw, table |-> rows, err |-> "none"]

\* pd.DataFrame({column: array}): the columns exist whatever the length
FrameOfColumns(profile, raw, rows) ==
    [profile |-> profile, raw |-> raw, table |-> rows, err |-> "none"]

InitProfile ==
    /\ sim \in {"isolation", "parametric", "hipot", "laser_ethernet"}
    /\ connected = [s \in Sessions |-> FALSE]
    /\ closed = [s \in Sessions |-> FALSE]
    /\ last = NoCall
    /\ digital_raw = <<>>
    /\ digital_out = <<>>
    /\ prof = NoTable
    /\ stats = NoAnalysis
    /\ ing = NoIngest

BuildIsolationTable(n) ==
    /\ sim = "isolation" /\ prof = NoTable
    /\ \E raw \in [1..n -> IsolationRaw] :
        prof' = FrameOfRows("isolation", [resistance |-> raw],
                            [i \in 1..n |-> IsolationRow(raw[i])])
    /\ UNCHANGED <<sim, connected, closed, last, digital_raw, digital_out, stats, ing>>

BuildParametricTable(n) ==
    /\ sim = "parametric" /\ prof = NoTable
    /\ \E raw_v \in [1..n -> ParametricRawVoltage], raw_i \in [1..n -> ParametricRawCurrent] :
        prof' = FrameOfRows("parametric", [voltage |-> raw_v, current |-> raw_i],
                            [i \in 1..n |-> ParametricRow(raw_v[i], raw_i[i])])
    /\ UNCHANGED <<sim, connected, closed, last, digital_raw, digital_out, stats, ing>>

BuildHiPotTable(n) ==
    /\ sim = "hipot" /\ prof = NoTable
    /\ \E raw_v \in [1..n -> HiPotRawVoltage], raw_i \in [1..n -> HiPotRawCurrent] :
        prof' = FrameOfRows("hipot", [voltage |-> raw_v, current |-> raw_i],
                            [i \in 1..n |-> HiPotRow(raw_v[i], raw_i[i])])
    /\ UNCHANGED <<sim, connected, closed, last, digital_raw, digital_out, stats, ing>>

BuildLaserTable(n) ==
    /\ sim = "laser_ethernet" /\ prof = NoTable
    /\ \E raw_p \in [1..n -> LaserRawPower], raw_w \in [1..n -> LaserRawWavelength] :
        prof' = FrameOfColumns("laser", [power |-> raw_p, wavelength |-> raw_w],
                               [i \in 1..n |-> LaserRow(raw_p[i], raw_w[i])])
    /\ UNCHANGED <<sim, connected, closed, last, digital_raw, digital_out, stats, ing>>

NextProfile ==
    \E n \in 0..MaxRows :
        \/ BuildIsolationTable(n)
        \/ BuildParametricTable(n)
        \/ BuildHiPotTable(n)
        \/ BuildLaserTable(n)

SpecProfile == InitProfile /\ [][NextProfile]_vars

---------------------------------------------------------------------------
(* The rows of the DataFrame *)

Built(profile) == prof.profile = profile /\ prof.err = "none"

\* the table has one row per sample of every channel read, in their order
OneRowPerSample ==
    \A ch \in DOMAIN prof.raw : Len(prof.table) = Len(prof.raw[ch])

\* C12: the table returned by generate_test_data has one row per acquired
\* sample in acquisition order; row i carries the value of raw sample i of
\* each channel, and a lost sample still yields its row, holding the missing
\* marker.
C12_RowCarriesItsSample ==
    /\ (prof.profile # "none" /\ prof.err = "none") => OneRowPerSample
    /\ Built("isolation") =>
          \A i \in 1..Len(prof.table) :
              prof.table[i].resistance * Millionth
                  = Abs(prof.raw.resistance[i]) * resistance_scale
    /\ Built("laser") =>
          \A i \in 1..Len(prof.table) :
              /\ prof.table[i].power = Laser_power(prof.raw.power[i])
              /\ prof.table[i].wavelength = Laser_wavelength(prof.raw.wavelength[i])
              /\ prof.table[i].power.nan = prof.raw.power[i].nan
              /\ prof.table[i].wavelength.nan = prof.raw.wavelength[i].nan

Rows == 1..Len(prof.table)

\* C17: in the isolation test resistance = abs(raw) x 1e6 and a row passes
\* iff resistance >= 100: raw -0.0002 gives 200 and passes, and a resistance
\* of exactly 100 passes.
C17_IsolationProfile ==
    Built("isolation") =>
        \A i \in Rows :
            LET raw == prof.raw.resistance[i]
                row == prof.table[i]
            IN  /\ row.resistance * 1000000 = Abs(raw) * 1000000
                /\ row.pass_fail = 1 <=> row.resistance >= 100
                /\ raw = -200 => row.resistance = 200 /\ row.pass_fail = 1
                /\ row.resistance = 100 => row.pass_fail = 1

\* a table with raw -0.0002 in one row and a resistance of exactly 100 in the other
C17_Witness ==
    /\ Built("isolation") /\ Len(prof.table) = 2
    /\ prof.raw.resistance = <<-200, 100>>
    /\ prof.table[1] = [resistance |-> 200, pass_fail |-> 1]
    /\ prof.table[2] = [resistance |-> 100, pass_fail |-> 1]

\* C18: in the parametric test voltage = abs(raw_v) x 1000, current =
\* abs(raw_i) x 1000, power = voltage x current / 1000, and a row passes iff
\* 3200 <= voltage <= 3400 and 450 <= current <= 550 and power <= 2000: a
\* voltage of 3500 fails whatever the current.
C18_ParametricProfile ==
    Built("parametric") =>
        \A i \in Rows :
            LET row == prof.table[i]
            IN  /\ row.voltage * 1000 = Abs(prof.raw.voltage[i]) * 1000
                /\ row.current * 1000 = Abs(prof.raw.current[i]) * 1000
                /\ row.power_x1000 = row.voltage * row.current
                /\ row.pass_fail = 1 <=>
                      /\ 3200 <= row.voltage /\ row.voltage <= 3400
                      /\ 450 <= row.current /\ row.current <= 550
                      /\ row.power_x1000 <= 2000 * 1000
                /\ row.voltage = 3500 => row.pass_fail = 0

\* 3500 mV with an in-range current fails, next to a row that passes
C18_Witness ==
    /\ Built("parametric") /\ Len(prof.table) = 2
    /\ prof.table[1].voltage = 3500 /\ prof.table[1].current = 500
    /\ prof.table[1].pass_fail = 0
    /\ prof.table[2].voltage = 3300 /\ prof.table[2].current = 500
    /\ prof.table[2].pass_fail = 1

AbsCell(cell) == IF cell.nan THEN nan ELSE Float(Abs(cell.v))

\* C19: every resistance, power and voltage-magnitude field of a row is
\* computed with abs() before scaling, so it is non-negative in every row
\* (a lost sample's missing marker apart).
C19_AbsBeforeScaling ==
    /\ Built("isolation") =>
          \A i \in Rows :
              /\ prof.table[i].resistance * Millionth
                    = Abs(prof.raw.resistance[i]) * resistance_scale
              /\ prof.table[i].resistance >= 0
    /\ Built("parametric") =>
          \A i \in Rows :
              /\ prof.table[i].voltage * Thousandth
                    = Abs(prof.raw.voltage[i]) * voltage_scale
              /\ prof.table[i].voltage >= 0
              /\ prof.table[i].power_x1000 >= 0
    /\ Built("hipot") =>
          \A i \in Rows :
              /\ prof.table[i].voltage = Abs(prof.raw.voltage[i]) * hipot_voltage_scale
              /\ prof.table[i].voltage >= 0
    /\ Built("laser") =>
          \A i \in Rows :
              /\ prof.table[i].power = Laser_power(AbsCell(prof.raw.power[i]))
              /\ prof.table[i].power.nan \/ prof.table[i].power.v >= 0

---------------------------------------------------------------------------
(* Part 4: analyze_test_data.                                              *)
(*                                                                         *)
(* One tracked column of the DataFrame is followed through the analysis:   *)
(* the code treats every column alike and separately.  A column holds      *)
(* cells [nan, v], v counting units of 1 / Unit(test).  A statistic is an  *)
(* exact number  num/den + k * sqrt(vnum/vden)  or one of the IEEE values  *)
(* NaN, inf, -inf; a capability index is a quotient by three sigma.        *)

\* rows of the analysed table: 0..MaxTableRows
MaxTableRows == 3

\* the (simulator, column) pairs followed, with the values tried
Tracked ==
    { [test |-> "isolation",  column |-> "resistance"],
      [test |-> "parametric", column |-> "voltage"],
      [test |-> "hipot",      column |-> "voltage"],
      [test |-> "hipot",      column |-> "current"],
      [test |-> "burnin",     column |-> "temperature"],
      [test |-> "laser",      column |-> "power"] }

Unit(test) == IF test = "hipot" THEN 10 ELSE 1

ColumnValues(t) ==
    CASE t.test = "isolation"  -> {Float(50), Float(100), Float(200)}
      [] t.test = "parametric" -> {Float(3200), Float(3300), Float(3500)}
      [] t.test = "hipot" /\ t.column = "voltage" -> {Float(45), Float(50), Float(56)}
      [] t.test = "hipot" /\ t.column = "current" -> {Float(5), Float(10), Float(12)}
      [] t.test = "burnin"     -> {Float(85), Float(90), Float(95)}
      [] t.test = "laser"      -> {nan, Float(5), Float(55), Float(105)}

\* exact and IEEE numbers
Rat(n, d) == [kind |-> "fin", num |-> n, den |-> d, k |-> 0, vnum |-> 0, vden |-> 1]
NaN == [kind |-> "nan", num |-> 0, den |-> 1, k |-> 0, vnum |-> 0, vden |-> 1]
Sqrt(n, d) == [kind |-> "fin", num |-> 0, den |-> 1, k |-> 1, vnum |-> n, vden |-> d]

\* a - b for numbers without a root
Sub(a, b) ==
    IF a.kind = "nan" \/ b.kind = "nan" THEN NaN
    ELSE Rat(a.num * b.den - b.num * a.den, a.den * b.den)

\* the sign of a number without a root
Sign(a) == IF a.num > 0 THEN 1 ELSE IF a.num < 0 THEN -1 ELSE 0

\* a < b for numbers without a root; False when either is NaN
Lt(a, b) ==
    /\ a.kind = "fin" /\ b.kind = "fin"
    /\ a.num * b.den < b.num * a.den

\* mean + j * std
PlusSigma(mean, j, std) ==
    IF mean.kind = "nan" \/ std.kind = "nan" THEN NaN
    ELSE [kind |-> "fin", num |-> mean.num, den |-> mean.den,
          k |-> j * std.k, vnum |-> std.vnum, vden |-> std.vden]

\* a <= b for two numbers over the same root; False when either is NaN
Leq(a, b) ==
    /\ a.kind = "fin" /\ b.kind = "fin"
    /\ LET d == a.num * b.den - b.num * a.den   \* sign of the rational part of a - b
           m == a.den * b.den
           j == a.k - b.k
           v == IF a.k # 0 THEN a ELSE b
       IN  IF j = 0 \/ v.vnum = 0 THEN d <= 0
           ELSE IF j < 0
                THEN d <= 0 \/ d * d * v.vden <= j * j * v.vnum * m * m
                ELSE d <= 0 /\ d * d * v.vden >= j * j * v.vnum * m * m

RECURSIVE SeqSum(_)
SeqSum(s) == IF s = <<>> THEN 0 ELSE Head(s) + SeqSum(Tail(s))

\* the values pandas reduces over: NaN cells are skipped (skipna=True)
Valid(col) ==
    LET present == SelectSeq(col, LAMBDA c : ~c.nan)
    IN  [i \in 1..Len(present) |-> present[i].v]

\* Series.mean()
Series_mean(col, unit) ==
    LET xs == Valid(col)
    IN  IF Len(xs) = 0 THEN NaN ELSE Rat(SeqSum(xs), Len(xs) * unit)

\* Series.std(): the sample standard deviation (ddof = 1), NaN below two values
Series_std(col, unit) ==
    LET xs == Valid(col)
        n == Len(xs)
        sum == SeqSum(xs)
        sumsq == SeqSum([i \in 1..n |-> xs[i] * xs[i]])
    IN  IF n <= 1 THEN NaN
        ELSE Sqrt(n * sumsq - sum * sum, n * (n - 1) * unit * unit)

\* Series.min() and Series.max()
Series_min(col, unit) ==
    LET xs == Valid(col)
    IN  IF Len(xs) = 0 THEN NaN
        ELSE Rat(CHOOSE x \in {xs[i] : i \in 1..Len(xs)} :
                     \A i \in 1..Len(xs) : x <= xs[i], unit)

Series_max(col, unit) ==
    LET xs == Valid(col)
    IN  IF Len(xs) = 0 THEN NaN
        ELSE Rat(CHOOSE x \in {xs[i] : i \in 1..Len(xs)} :
                     \A i \in 1..Len(xs) : x >= xs[i], unit)

mut_rolling_range(col) ==
    \* min_periods = 1: the first window holds one value, whose range is 0
    [i \in 1..Len(col) |->
        IF col[i].nan THEN nan
        ELSE IF i = 1 \/ col[i - 1].nan THEN Float(0)
        ELSE Float(Abs(col[i].v - col[i - 1].v))]

\* Series.rolling(window=2).apply(lambda x: x.max() - x.min()): a window that
\* does not hold two values gives NaN
rolling_range(col) ==
    [i \in 1..Len(col) |->
        IF i = 1 \/ col[i].nan \/ col[i - 1].nan THEN nan
        ELSE Float(Abs(col[i].v - col[i - 1].v))]

\* the three lines of a control chart: mean and mean +/- 3 * std
ControlLimits(col, unit) ==
    LET mean == Series_mean(col, unit)
        std == Series_std(col, unit)
    IN  [center |-> mean, ucl |-> PlusSigma(mean, 3, std), lcl |-> PlusSigma(mean, -3, std)]

\* _plot_spc_charts: the chart of the column and the chart of its moving range
plot_spc_charts(col, unit) ==
    LET column_r == rolling_range(col)
    IN  [x |-> ControlLimits(col, unit),
         series |-> column_r,
         r |-> ControlLimits(column_r, unit)]

\* a capability index: (num/den) / (3 * sqrt(vnum/vden)), or an IEEE value
Quotient(kind, a, std) ==
    [kind |-> kind, num |-> a.num, den |-> a.den, vnum |-> std.vnum, vden |-> std.vden]

\* a / (3 * std) on numpy floats: a zero divisor gives inf, -inf or NaN
Div3Sigma(a, std) ==
    IF a.kind = "nan" \/ std.kind = "nan" THEN Quotient("nan", NaN, NaN)
    ELSE IF std.vnum = 0
         THEN IF Sign(a) > 0 THEN Quotient("inf", NaN, NaN)
              ELSE IF Sign(a) < 0 THEN Quotient("-inf", NaN, NaN)
              ELSE Quotient("nan", NaN, NaN)
         ELSE Quotient("fin", a, std)

\* a < b for two quotients by the same three sigma; False when either is NaN
QLt(a, b) ==
    /\ a.kind # "nan" /\ b.kind # "nan"
    /\ \/ a.kind = "-inf" /\ b.kind # "-inf"
       \/ a.kind = "fin" /\ b.kind = "inf"
       \/ a.kind = "fin" /\ b.kind = "fin" /\ a.num * b.den < b.num * a.den

\* Python's min(a, b): b when b < a, else a
min(a, b) == IF Lt(b, a) THEN b ELSE a
qmin(a, b) == IF QLt(b, a) THEN b ELSE a

\* cp = min(usl - mean, mean - lsl) / (3 * std),
\* cpk = min((usl - mean) / (3 * std), (mean - lsl) / (3 * std))
TwoSided(lsl, usl, mean, std) ==
    [has |-> TRUE,
     cp |-> Div3Sigma(min(Sub(usl, mean), Sub(mean, lsl)), std),
     cpk |-> qmin(Div3Sigma(Sub(usl, mean), std), Div3Sigma(Sub(mean, lsl), std))]

\* cp = (usl - mean) / (3 * std); cpk = cp
UpperOnly(usl, mean, std) ==
    LET cp == Div3Sigma(Sub(usl, mean), std)
        cpk == cp
    IN  [has |-> TRUE, cp |-> cp, cpk |-> cpk]

NoCapability ==
    [has |-> FALSE, cp |-> Quotient("nan", NaN, NaN), cpk |-> Quotient("nan", NaN, NaN)]

mut_HiPot_current_capability(mean, std) ==
    \* the limit of the voltage column is used
    UpperOnly(Rat(55, 10), mean, std)

\* hipot_simulation.py:41-44
HiPot_current_capability(mean, std) == UpperOnly(Rat(1, 1), mean, std)

\* hipot_simulation.py:35-38
HiPot_voltage_capability(mean, std) == TwoSided(Rat(45, 10), Rat(55, 10), mean, std)

\* burnin_simulation.py:35-38
BurnIn_temperature_capability(mean, std) == UpperOnly(Rat(90, 1), mean, std)

\* laser_simulation.py:50-53
Laser_power_capability(mean, std) == TwoSided(Rat(10, 1), Rat(100, 1), mean, std)

\* _save_statistics: the capability indices added to results, where the
\* simulator computes any
save_statistics(t, col) ==
    LET mean == Series_mean(col, Unit(t.test))
        std == Series_std(col, Unit(t.test))
    IN  CASE t.test = "hipot" /\ t.column = "voltage" -> HiPot_voltage_capability(mean, std)
          [] t.test = "hipot" /\ t.column = "current" -> HiPot_current_capability(mean, std)
          [] t.test = "burnin" -> BurnIn_temperature_capability(mean, std)
          [] t.test = "laser" -> Laser_power_capability(mean, std)
          [] OTHER -> NoCapability

\* the keys of the results dict: the rate, the statistics of the column and the
\* timestamp (isolation_simulation.py:84-88; the burn-in rate is failure_rate),
\* and the capability indices where _save_statistics adds them to the dict
results_keys(t, col) ==
    {IF t.test = "burnin" THEN "failure_rate" ELSE "pass_rate", "stats", "timestamp"}
        \cup (IF save_statistics(t, col).has THEN {"capability"} ELSE {})

\* the files written under self.report_dir: _plot_results and _plot_spc_charts
\* save a figure each, _save_statistics dumps results and the data
report_files == {"timeseries.png", "spc.png", "stats.json", "data.csv"}

\* analyze_test_data(data): data['pass_fail'] of a frame without columns
\* raises KeyError, which is logged and raised again
analyze_test_data(t, has_columns, x, pass_fail) ==
    IF ~has_columns THEN [err |-> "KeyError", files |-> {}]
    ELSE [err |-> "none",
          pass_rate |-> Series_mean([i \in 1..Len(pass_fail) |-> Float(pass_fail[i])], 1),
          column_stats |->
              [mean |-> Series_mean(x, Unit(t.test)), std |-> Series_std(x, Unit(t.test)),
               min |-> Series_min(x, Unit(t.test)), max |-> Series_max(x, Unit(t.test))],
          charts |-> plot_spc_charts(x, Unit(t.test)),
          capability |-> save_statistics(t, x),
          keys |-> results_keys(t, x),
          files |-> report_files]

SimulatorOf(test) == IF test = "laser" THEN "laser_ethernet" ELSE test

\* a DataFrame to analyse: 0..MaxTableRows rows of the tracked column and of
\* pass_fail; without rows the frame may also have no columns (pd.DataFrame([]))
InitStats ==
    /\ connected = [s \in Sessions |-> FALSE]
    /\ closed = [s \in Sessions |-> FALSE]
    /\ last = NoCall
    /\ digital_raw = <<>>
    /\ digital_out = <<>>
    /\ prof = NoTable
    /\ ing = NoIngest
    /\ \E t \in Tracked, n \in 0..MaxTableRows :
        \E x \in [1..n -> ColumnValues(t)], pass_fail \in [1..n -> {0, 1}],
           has_columns \in {n > 0, TRUE} :
            /\ sim = SimulatorOf(t.test)
            /\ stats = [test |-> t.test, column |-> t.column,
                        has_columns |-> has_columns, x |-> x, pass_fail |-> pass_fail,
                        analysed |-> FALSE, out |-> [err |-> "none"]]

AnalyzeTestData ==
    /\ ~stats.analysed
    /\ stats' = [stats EXCEPT
                    !.analysed = TRUE,
                    !.out = analyze_test_data([test |-> stats.test, column |-> stats.column],
                                              stats.has_columns, stats.x, stats.pass_fail)]
    /\ UNCHANGED <<sim, connected, closed, last, digital_raw, digital_out, prof, ing>>

NextStats == AnalyzeTestData

SpecStats == InitStats /\ [][NextStats]_vars

---------------------------------------------------------------------------
(* Statistics *)

Analysed == stats.analysed /\ stats.out.err = "none"

\* the column holds at least two values and they are all the same
AllIdentical ==
    LET xs == Valid(stats.x)
    IN  Len(xs) >= 2 /\ \A i \in 1..Len(xs) : xs[i] = xs[1]

\* C13: for a column whose values are all identical (sigma = 0) the reported
\* capability indices are the DegenerateCapability sentinel; no cp or cpk is
\* +inf, -inf or NaN.
C13_DegenerateCapabilitySentinel ==
    (Analysed /\ stats.out.capability.has /\ AllIdentical) =>
        /\ stats.out.capability.cp.kind = "DegenerateCapability"
        /\ stats.out.capability.cpk.kind = "DegenerateCapability"

\* C14: analysing an empty table reports the distinct condition EmptyDataset;
\* it never returns results filled with NaN.
C14_EmptyDatasetReported ==
    (stats.analysed /\ Len(stats.x) = 0) => stats.out.err = "EmptyDataset"

Ordered(limits) == Leq(limits.lcl, limits.center) /\ Leq(limits.center, limits.ucl)

\* C15: for every non-empty table, a single row or partly missing rows
\* included, the control limits of the column and those of its moving range
\* satisfy lcl <= center <= ucl.
C15_ControlLimitsOrdered ==
    (Analysed /\ Len(stats.x) >= 1) =>
        /\ Ordered(stats.out.charts.x)
        /\ Ordered(stats.out.charts.r)

NoneMissing == \A i \in 1..Len(stats.x) : ~stats.x[i].nan

\* C16: for a column of N values, none missing, the moving range that enters
\* the mean and the limits has exactly N - 1 entries, entry k being
\* |x[k] - x[k-1]|; the first sample contributes no entry and is not counted
\* as a range of zero.
C16_MovingRangeEntries ==
    (Analysed /\ Len(stats.x) >= 1 /\ NoneMissing) =>
        LET N == Len(stats.x)
            series == stats.out.charts.series
            ranges == [k \in 1..(N - 1) |-> Abs(stats.x[k + 1].v - stats.x[k].v)]
        IN  /\ Len(series) = N
            /\ series[1].nan
            /\ Valid(series) = ranges
            /\ stats.out.charts.r.center =
                  IF N = 1 THEN NaN ELSE Rat(SeqSum(ranges), (N - 1) * Unit(stats.test))

\* resistances 50, 200, 100: ranges 150 and 100, mean range 125
C16_Witness ==
    /\ Analysed /\ stats.test = "isolation"
    /\ stats.x = <<Float(50), Float(200), Float(100)>>
    /\ Valid(stats.out.charts.series) = <<150, 100>>
    /\ stats.out.charts.r.center = Rat(250, 2)

\* C20: for the HiPot current, whose limit is the upper limit 1.0 alone, the
\* reported cp and cpk are the same value (1.0 - mean) / (3 x std).
C20_HiPotCurrentCapability ==
    (Analysed /\ stats.test = "hipot" /\ stats.column = "current") =>
        LET mean == stats.out.column_stats.mean
            std == stats.out.column_stats.std
            cp == stats.out.capability.cp
        IN  /\ stats.out.capability.has
            /\ stats.out.capability.cpk = cp
            /\ cp.kind = "fin" =>
                  /\ mean.kind = "fin" /\ std.kind = "fin" /\ std.vnum > 0
                  /\ cp.num * mean.den = (1 * mean.den - mean.num) * cp.den
                  /\ cp.vnum * std.vden = std.vnum * cp.vden
            /\ cp.kind # "fin" => mean.kind = "nan" \/ std.kind = "nan" \/ std.vnum = 0

\* currents 0.5 and 1.0: mean 0.75, cp = cpk = 0.25 / (3 x std)
C20_Witness ==
    /\ Analysed /\ stats.test = "hipot" /\ stats.column = "current"
    /\ stats.x = <<Float(5), Float(10)>>
    /\ stats.out.capability.cp.kind = "fin"
    /\ stats.out.capability.cp.num * 4 = stats.out.capability.cp.den
    /\ stats.out.capability.cpk = stats.out.capability.cp

---------------------------------------------------------------------------
(* Sessions: repeated connects, reads and the order of the checks *)

\* C25: connect on a DAQ session that is already Connected is accepted
\* without error and leaves it Connected; no connection count is kept: after
\* any number of connects (the burn-in routine connects for analog and again
\* for digital) a single disconnect leaves the session Disconnected.
C25_ConnectTwiceDisconnectOnce ==
    /\ (IsDirect("connect", {"daq"}) /\ last.pre) =>
          /\ last.ret = "True" /\ last.err = "none"
          /\ connected["daq"]
    /\ IsDirect("disconnect", {"daq"}) => ~connected["daq"]
    /\ (IsGenerate /\ sim = "burnin" /\ Len(last.calls) >= 4) =>
          /\ last.calls[1].op = "connect" /\ last.calls[1].ok
          /\ last.calls[3].op = "connect" /\ last.calls[3].ok
          /\ \A k \in 1..Len(last.calls) :
                last.calls[k].op = "disconnect" => k = Len(last.calls)
          /\ ~connected["daq"]

\* the burn-in routine returned: two connects, one disconnect, Disconnected
C25_Witness ==
    /\ IsGenerate /\ sim = "burnin" /\ last.err = "none"
    /\ Len(last.calls) = 5
    /\ last.calls[1].op = "connect" /\ last.calls[3].op = "connect"
    /\ last.calls[5].op = "disconnect"
    /\ ~connected["daq"]

\* C26: read never changes the session state: a session Connected before a
\* read is Connected after it, whether the read returns samples or raises;
\* only a disconnect makes it Disconnected.
C26_ReadKeepsState ==
    [][/\ last'.op = "read_data" => connected' = connected
       /\ \A s \in Sessions :
             (connected[s] /\ ~connected'[s]) =>
                last'.op \in {"disconnect", "generate_test_data"}]_vars

\* a read of an unsupported source type raised and the session is still Connected
C26_Witness ==
    /\ IsDirect("read_data", {"daq"}) /\ last.pre
    /\ last.err = "UnsupportedSourceType"
    /\ connected["daq"]

\* C27: on the DAQ session a read with an unrecognized source type while
\* Disconnected fails with the not-connected error, not the unsupported-type
\* error; the unsupported-type error is reported by read only when Connected;
\* connect accepts an unrecognized source type and connects.
C27_NotConnectedFirst ==
    /\ (IsDirect("read_data", {"daq"}) /\ last.src \notin Recognized /\ ~last.pre) =>
          last.err = "NotConnected"
    /\ (IsDirect("read_data", {"daq"}) /\ last.err = "UnsupportedSourceType") =>
          last.pre /\ last.src \notin Recognized
    /\ (IsDirect("connect", {"daq"}) /\ last.src \notin Recognized) =>
          last.ret = "True" /\ connected["daq"]

\* a read of source type usb on a Disconnected session
C27_Witness ==
    /\ IsDirect("read_data", {"daq"}) /\ last.src = "usb" /\ ~last.pre
    /\ last.err = "NotConnected"

---------------------------------------------------------------------------
(* Pass/fail of the parametric and laser rows *)

\* C28: in the parametric test the power limit never decides: a row passes
\* iff 3200 <= voltage <= 3400 and 450 <= current <= 550, since those ranges
\* bound power = voltage x current / 1000 by 1870, below the limit 2000.
C28_PowerLimitNeverDecides ==
    Built("parametric") =>
        \A i \in Rows :
            LET row == prof.table[i]
                inRange == /\ 3200 <= row.voltage /\ row.voltage <= 3400
                           /\ 450 <= row.current /\ row.current <= 550
            IN  /\ row.pass_fail = 1 <=> inRange
                /\ inRange => row.power_x1000 <= 1870 * 1000

\* the largest in-range row, 3400 mV and 550 mA, has power 1870 and passes,
\* next to a row over the power limit that is out of range as well
C28_Witness ==
    /\ Built("parametric") /\ Len(prof.table) = 2
    /\ prof.table[1].voltage = 3400 /\ prof.table[1].current = 550
    /\ prof.table[1].power_x1000 = 1870 * 1000 /\ prof.table[1].pass_fail = 1
    /\ prof.table[2].power_x1000 > 2000 * 1000 /\ prof.table[2].pass_fail = 0

\* data['pass_fail'].mean() of the table built (laser_simulation.py:154)
PassRate ==
    Series_mean([i \in 1..Len(prof.table) |-> Float(prof.table[i].pass_fail)], 1)

\* C29: in the laser test a row with a missing raw sample (packet loss) always
\* gets pass_fail = 0, and the row counts in the denominator of the pass rate.
C29_LostSampleFailsRow ==
    Built("laser") =>
        /\ \A i \in Rows :
              (prof.raw.power[i].nan \/ prof.raw.wavelength[i].nan) =>
                  prof.table[i].pass_fail = 0
        /\ Len(prof.table) > 0 =>
              /\ PassRate.kind = "fin" /\ PassRate.den = Len(prof.table)
              /\ PassRate.num = Cardinality({i \in Rows : prof.table[i].pass_fail = 1})

---------------------------------------------------------------------------
(* What analyze_test_data returns and what it leaves behind *)

\* C21: the bundle returned by analyze_test_data holds, for every test type,
\* the pass/fail rate, a timestamp and, for the tracked parameter, descriptive
\* statistics, control limits and capability indices.
C21_BundleComplete ==
    Analysed =>
        {"pass_rate", "timestamp", "stats", "control_limits", "capability"}
            \subseteq stats.out.keys

\* C22: analyze_test_data has no effect but its return value: it writes no
\* file, leaves the table it was given as it was, and changes no session state.
C22_AnalyzeHasNoEffect ==
    [][stats'.analysed =>
          /\ stats'.out.files = {}
          /\ stats'.x = stats.x /\ stats'.pass_fail = stats.pass_fail
          /\ stats'.has_columns = stats.has_columns
          /\ connected' = connected /\ sim' = sim]_vars

---------------------------------------------------------------------------
(* Part 5: the ETL routines (src/etl)                                      *)
(*                                                                         *)
(* A CSV file is a header and its data rows; a DataFrame is its columns in *)
(* order and, per column, one cell per row.  A cell is <<origin, id>>: the *)
(* value read from column `origin` of the row whose id is `id`, so that a  *)
(* column copied under another name is still told apart from the column it *)
(* replaces.  A table of the database is a bag of record ids.              *)

MaxId == 2
MaxFileRows == 2

Ids == 1..MaxId

Range(f) == {f[i] : i \in DOMAIN f}

\* the headers of the CSV files ingested
Headers ==
    { <<"id", "value">>,
      <<"value", "id">>,
      <<"id">>,
      <<"id", "value", "timestamp", "result">> }

IdSeqs == UNION {[1..n -> Ids] : n \in 0..MaxFileRows}

\* pd.read_csv of a file with header h whose rows carry the ids in ids
read_csv(h, ids) ==
    [columns |-> h,
     rows    |-> Len(ids),
     data    |-> [c \in Range(h) |-> [i \in 1..Len(ids) |-> <<c, ids[i]>>]]]

TestTypes == {"burnin", "hipot", "isolation", "laser", "parametric"}

\* COLUMN_MAPPINGS: per test type the (target, source) pairs in dict order
COLUMN_MAPPINGS ==
    [t \in TestTypes |->
        CASE t = "burnin"     -> << <<"id", "id">>, <<"value", "value">> >>
          [] t = "hipot"      -> << <<"id", "id">>, <<"voltage", "value">>,
                                    <<"current", "value">>,
                                    <<"test_time", "timestamp">>,
                                    <<"result", "result">> >>
          [] t = "isolation"  -> << <<"id", "id">>, <<"resistance", "value">>,
                                    <<"voltage", "value">>,
                                    <<"test_time", "timestamp">>,
                                    <<"result", "result">> >>
          [] t = "laser"      -> << <<"id", "id">>, <<"power", "value">>,
                                    <<"wavelength", "value">>,
                                    <<"test_time", "timestamp">>,
                                    <<"result", "result">> >>
          [] t = "parametric" -> << <<"id", "id">>, <<"voltage", "value">>,
                                    <<"current", "value">>,
                                    <<"test_time", "timestamp">>,
                                    <<"result", "result">> >>]

\* df[c] = values: an existing column is replaced in place, a new one appended
SetColumn(df, c, values) ==
    [columns |-> IF c \in Range(df.columns) THEN df.columns
                 ELSE Append(df.columns, c),
     rows    |-> df.rows,
     data    |-> [k \in Range(df.columns) \cup {c} |->
                     IF k = c THEN values ELSE df.data[k]]]

\* df[c] = scalar: the scalar in every row
Scalar(df, v) == [i \in 1..df.rows |-> <<v, 0>>]

\* the loop of normalize_data over mapping.items(), from its i-th pair on
RECURSIVE MapColumns(_, _, _)
MapColumns(df, mapping, i) ==
    IF i > Len(mapping) THEN df
    ELSE LET target_col == mapping[i][1]
             source_col == mapping[i][2]
         IN  MapColumns(IF source_col \in Range(df.columns)
                        THEN SetColumn(df, target_col, df.data[source_col])
                        ELSE df,
                        mapping, i + 1)

Targets(mapping) == {mapping[i][1] : i \in DOMAIN mapping}

\* the default of COLUMN_MAPPINGS.get read as the isolation mapping
mut_default_mapping == COLUMN_MAPPINGS["isolation"]

\* COLUMN_MAPPINGS.get(test_type, COLUMN_MAPPINGS['burnin']): its default
default_mapping == COLUMN_MAPPINGS["burnin"]

\* lines 89-94: a column the mapping names and the table lacks is filled in
AddDefault(df, mapping, column, v) ==
    IF column \in Targets(mapping) /\ column \notin Range(df.columns)
    THEN SetColumn(df, column, Scalar(df, v))
    ELSE df

\* COLUMN_MAPPINGS.get(test_type, COLUMN_MAPPINGS['burnin'])
MappingOf(test_type) ==
    IF test_type \in DOMAIN COLUMN_MAPPINGS /\ test_type # "burnin"
    THEN COLUMN_MAPPINGS[test_type]
    ELSE default_mapping

\* the body of normalize_data on the copy of df, given the mapping
Normalize(copy, mapping) ==
    AddDefault(AddDefault(MapColumns(copy, mapping, 1), mapping, "test_time", "now"),
               mapping, "result", "PASS")

\* normalize_data(df, test_type): the caller's frame after the call (df) and
\* the frame returned (normalized_df)
normalize_data(df, test_type) ==
    [df |-> df, normalized_df |-> Normalize(df, MappingOf(test_type))]

\* the ingest routines, named by the table they write
Routines == {"burnin", "isolation", "laser", "parametric", "ict"}

\* the test type each routine hands to normalize_data (none: the default)
NormalizedAs(routine) ==
    IF routine \in {"burnin", "ict"} THEN "burnin" ELSE routine

\* the columns each routine converts before it builds its objects, in order
Converted(routine) ==
    CASE routine = "burnin"     -> <<"id", "value">>
      [] routine = "isolation"  -> <<"id", "resistance", "voltage", "test_time", "result">>
      [] routine = "laser"      -> <<"id", "power", "wavelength", "test_time", "result">>
      [] routine = "parametric" -> <<"id", "voltage", "current", "test_time", "result">>
      [] routine = "ict"        -> <<>>

\* the columns converted with astype(float)
FloatColumns == {"value", "resistance", "voltage", "current", "power", "wavelength"}

\* the files handed to the routines: a path with no file, or a header with
\* rows whose measurement column holds numbers or text
Files ==
    { [exists |-> FALSE, header |-> <<"id">>, ids |-> <<>>, numeric |-> TRUE] }
    \cup { [exists |-> TRUE, header |-> h, ids |-> ids, numeric |-> TRUE] :
              h \in Headers \ {<<"value", "id">>}, ids \in IdSeqs }
    \cup { [exists |-> TRUE, header |-> <<"id", "value">>, ids |-> ids,
            numeric |-> FALSE] : ids \in IdSeqs \ {<<>>} }

EmptyTable == [i \in Ids |-> 0]

\* the primary key is not enforced
mut_primary_key(rows, id) == FALSE

\* id = Column(Integer, primary_key=True): a stored record already has the id
primary_key(rows, id) == rows[id] > 0

\* session.bulk_save_objects: one INSERT per object inside the transaction
RECURSIVE bulk_save_objects(_, _)
bulk_save_objects(rows, ids) ==
    IF ids = <<>> THEN [err |-> "none", rows |-> rows]
    ELSE IF primary_key(rows, Head(ids))
         THEN [err |-> "IntegrityError", rows |-> rows]
         ELSE bulk_save_objects([rows EXCEPT ![Head(ids)] = @ + 1], Tail(ids))

\* the first error of the type conversions of a routine, from its i-th on
RECURSIVE Convert(_, _, _, _)
Convert(columns, numeric, converted, i) ==
    IF i > Len(converted) THEN "none"
    ELSE IF converted[i] \notin columns THEN "KeyError"
    ELSE IF converted[i] \in FloatColumns /\ ~numeric THEN "ValueError"
    ELSE Convert(columns, numeric, converted, i + 1)

\* the constructor calls: ICTData has no column `value`
Construct(routine, normalized_df) ==
    IF routine = "ict" /\ normalized_df.rows > 0
    THEN IF {"id", "value"} \subseteq Range(normalized_df.columns)
         THEN "TypeError" ELSE "KeyError"
    ELSE "none"

\* the conversions and constructor calls of a routine on the normalized table:
\* the error raised, if any, and the ids of the objects built
ObjectsOf(routine, numeric, normalized_df) ==
    LET converted == Convert(Range(normalized_df.columns), numeric,
                             Converted(routine), 1)
    IN  IF converted # "none" THEN [err |-> converted, ids |-> <<>>]
        ELSE IF Construct(routine, normalized_df) # "none"
        THEN [err |-> Construct(routine, normalized_df), ids |-> <<>>]
        ELSE [err |-> "none",
              ids |-> [i \in 1..normalized_df.rows |-> normalized_df.data["id"][i][2]]]

\* the body of an ingest routine up to its list of objects
build_objects(routine, file) ==
    IF ~file.exists THEN [err |-> "FileNotFoundError", ids |-> <<>>]
    ELSE ObjectsOf(routine, file.numeric,
                   normalize_data(read_csv(file.header, file.ids),
                                  NormalizedAs(routine)).normalized_df)

\* build_objects tabulated over the routines and the files
Objects == [routine \in Routines |-> [file \in Files |-> build_objects(routine, file)]]

\* how a routine ends: the error raised, whether session.rollback() ran, and
\* the rows stored; only ingest_ict_data has no except branch
Settle(routine, rows, raised, inserted, commit_fails) ==
    LET err == IF raised # "none" THEN raised
               ELSE IF inserted.err # "none" THEN inserted.err
               ELSE IF commit_fails THEN "OperationalError"
               ELSE "none"
    IN  [err         |-> err,
         rolled_back |-> err # "none" /\ routine # "ict",
         rows        |-> IF err = "none" THEN inserted.rows ELSE rows]

\* the insert and the commit of the objects built
InsertAndCommit(routine, rows, objects, commit_fails) ==
    Settle(routine, rows, objects.err, bulk_save_objects(rows, objects.ids),
           commit_fails)

\* ingest_<routine>_data(file_path, session) on a table holding `rows`
ingest(routine, file, rows, commit_fails) ==
    InsertAndCommit(routine, rows, Objects[routine][file], commit_fails)

\* the observation of one call
IngestCall(routine, file, before, r) ==
    [routine |-> routine, table |-> r.rows, op |-> "ingest", err |-> r.err,
     file |-> file, before |-> before, rolled_back |-> r.rolled_back]

InitIngest ==
    /\ sim = "burnin"
    /\ connected = [s \in Sessions |-> FALSE]
    /\ closed = [s \in Sessions |-> FALSE]
    /\ last = NoCall
    /\ digital_raw = <<>> /\ digital_out = <<>>
    /\ prof = NoTable /\ stats = NoAnalysis
    /\ \E routine \in Routines :
          ing = [routine |-> routine, table |-> EmptyTable, op |-> "init",
                 err |-> "none"]

\* one call of the routine on a file
IngestFile ==
    /\ ing.routine \in Routines
    /\ \E file \in Files, commit_fails \in BOOLEAN :
          ing' = IngestCall(ing.routine, file, ing.table,
                            ingest(ing.routine, file, ing.table, commit_fails))
    /\ UNCHANGED <<sim, connected, closed, last, digital_raw, digital_out, prof, stats>>

NextIngest == IngestFile

SpecIngest == InitIngest /\ [][NextIngest]_vars

InitNormalize ==
    /\ sim = "burnin"
    /\ connected = [s \in Sessions |-> FALSE]
    /\ closed = [s \in Sessions |-> FALSE]
    /\ last = NoCall
    /\ digital_raw = <<>> /\ digital_out = <<>>
    /\ prof = NoTable /\ stats = NoAnalysis
    /\ ing = NoIngest

\* one call of normalize_data; "ict" stands for a type COLUMN_MAPPINGS lacks
NormalizeData ==
    /\ \E h \in Headers, ids \in IdSeqs, test_type \in TestTypes \cup {"ict"} :
          LET df == read_csv(h, ids)
          IN  ing' = [routine |-> "none", table |-> <<>>, op |-> "normalize_data",
                      err |-> "none", test_type |-> test_type, df |-> df,
                      out |-> normalize_data(df, test_type)]
    /\ UNCHANGED <<sim, connected, closed, last, digital_raw, digital_out, prof, stats>>

NextNormalize == NormalizeData

SpecNormalize == InitNormalize /\ [][NextNormalize]_vars

---------------------------------------------------------------------------
(* Properties of the ETL routines *)

Normalized == ing.op = "normalize_data"

\* C23: normalize_data called with the default test type returns a table
\* equal to its input (same columns, same rows, same values) and leaves the
\* table it was given as it was.
C23_DefaultNormalizeIsIdentity ==
    (Normalized /\ ing.test_type = "burnin") =>
        /\ ing.out.normalized_df = ing.df
        /\ ing.out.df = ing.df

C23_Witness ==
    /\ Normalized /\ ing.test_type = "burnin"
    /\ ing.df.rows = MaxFileRows
    /\ ing.df.columns = <<"id", "value", "timestamp", "result">>
    /\ ing.out.normalized_df = ing.df

Ingested == ing.op = "ingest"

Failed == Ingested /\ ing.err # "none"

\* the records the table holds
Stored(rows) == {i \in Ids : rows[i] > 0}

\* C24: for every ingest routine, a failure at any step propagates to the
\* caller, the session is rolled back and no record of the file is persisted;
\* a file with no data rows persists no record.
C24_FailureRollsBack ==
    /\ Failed => (ing.rolled_back /\ ing.table = ing.before)
    /\ (Ingested /\ ing.file.exists /\ ing.file.ids = <<>>) =>
          ing.table = ing.before

\* the same for the five routines that guard their body with try/except
C24_GuardedRoutinesRollBack ==
    /\ (Failed /\ ing.routine # "ict") =>
          (ing.rolled_back /\ ing.table = ing.before)
    /\ (Ingested /\ ing.file.exists /\ ing.file.ids = <<>>) =>
          ing.table = ing.before

\* C30: the ids within a table are unique, and the ingest of a file holding
\* an id already stored fails and leaves the stored records as they were.
C30_IdsUniqueAllOrNothing ==
    /\ ing.routine \in Routines => \A i \in Ids : ing.table[i] <= 1
    /\ (Ingested /\ ing.file.exists
          /\ Range(ing.file.ids) \cap Stored(ing.before) # {}) =>
          (ing.err # "none" /\ ing.table = ing.before)
    /\ Ingested =>
          \/ ing.table = ing.before
          \/ /\ ing.err = "none"
             /\ \A i \in Ids :
                   ing.table[i] = ing.before[i]
                       + Cardinality({k \in DOMAIN ing.file.ids : ing.file.ids[k] = i})

C30_Witness ==
    /\ Ingested /\ ing.routine = "isolation"
    /\ ing.err = "IntegrityError"
    /\ Stored(ing.before) # {}
    /\ Range(ing.file.ids) \cap Stored(ing.before) # {}
    /\ Range(ing.file.ids) \ Stored(ing.before) # {}
    /\ ing.table = ing.before

====
